---- MODULE Spec2Model ----
(***************************************************************************)
(* zero2prod: the integration tests of tests/health_checks.rs (spawn_app,  *)
(* configure_database, clean_up and the three test functions), the         *)
(* subscribe handler of src/routes/subscriptions.rs and the connection     *)
(* strings of src/configuration.rs, run against one Postgres server.       *)
(* The three tests are threads of one test process; every await is a       *)
(* point where another test may run.                                       *)
(***************************************************************************)
EXTENDS Integers, Sequences, FiniteSets, TLC

(***************************************************************************)
(* Bounds                                                                  *)
(***************************************************************************)
\* longest encoded field value of a request body, in tokens
MaxValLen == 1
\* how many ports application_port and the other processes choose from
NumPorts == 2

(***************************************************************************)
(* The tests of the binary and the names they use                          *)
(***************************************************************************)
Tests == {"health_check_works",
          "subscribe_return_200_with_valid_data",
          "subscribe_return_400_with_missing_data"}

\* how many distinct values Uuid::new_v4 hands out: one for each call, and
\* every test calls it once
NumUuids == Cardinality(Tests)

NoName == <<"unset", 0>>
\* database_name of the configuration file: the persistent development database
BaseDb == <<"configured", 0>>
Uuids == {<<"uuid", i>> : i \in 1..NumUuids}
DbNames == {BaseDb} \cup Uuids

(***************************************************************************)
(* configuration.rs                                                        *)
(***************************************************************************)
BaseSettings ==
    [username |-> "user", password |-> "password", port |-> "port",
     host |-> "host", database_name |-> BaseDb]

NoSettings ==
    [username |-> "", password |-> "", port |-> "", host |-> "",
     database_name |-> NoName]

get_connection_string(s) ==
    <<"postgres://", s.username, ":", s.password, "@", s.host, ":", s.port,
      "/", s.database_name>>

\* the mutant: the administration string selects the database too
get_connection_string_with_db(s) ==
    <<"postgres://", s.username, ":", s.password, "@", s.host, ":", s.port,
      "/", s.database_name>>

get_connection_string_default_db(s) ==
    <<"postgres://", s.username, ":", s.password, "@", s.host, ":", s.port>>

\* the database a connection string selects; none selected = the server's default
DefaultDb == <<"default", 0>>
SelectedDb(conn) == IF Len(conn) = 10 THEN conn[10] ELSE DefaultDb

(***************************************************************************)
(* routes/subscriptions.rs and the requests of the tests                   *)
(***************************************************************************)
\* a form body is a sequence of key=value pairs, each value a sequence of
\* tokens: literal chunks, percent escapes and "+"
Pair(k, v) == [key |-> k, val |-> v]

PercentDecode(tok) ==
    CASE tok = "%20" -> " "
      [] tok = "%40" -> "@"
      [] tok = "+" -> " "
      [] OTHER -> tok

UrlDecode(v) == [i \in 1..Len(v) |-> PercentDecode(v[i])]

HasKey(body, k) == \E i \in 1..Len(body) : body[i].key = k

FieldValue(body, k) ==
    LET i == CHOOSE j \in 1..Len(body) :
                 body[j].key = k /\ \A h \in 1..(j - 1) : body[h].key # k
    IN  UrlDecode(body[i].val)

\* the mutant: email declared Option<String>
FormDataOptionalEmail(body) ==
    IF HasKey(body, "name")
    THEN [ok |-> TRUE, name |-> FieldValue(body, "name"),
          email |-> IF HasKey(body, "email") THEN FieldValue(body, "email") ELSE <<>>]
    ELSE [ok |-> FALSE, name |-> <<>>, email |-> <<>>]

\* #[derive(Deserialize)] struct FormData { name: String, email: String }
\* behind web::Form: both fields are required, unknown keys are ignored
FormData(body) ==
    IF HasKey(body, "name") /\ HasKey(body, "email")
    THEN [ok |-> TRUE, name |-> FieldValue(body, "name"),
          email |-> FieldValue(body, "email")]
    ELSE [ok |-> FALSE, name |-> <<>>, email |-> <<>>]

\* the mutant: the handler answers with a server error
subscribeInternalError(form) ==
    [status |-> 500, length |-> 0, handler |-> TRUE, insert |-> {}]

\* subscribe: HttpResponse::Ok().finish(); the form is not used and no row
\* is written
subscribe(form) ==
    [status |-> 200, length |-> 0, handler |-> TRUE, insert |-> {}]

\* the mutant: the health check answers with a body
health_checkWithBody ==
    [status |-> 200, length |-> 2, handler |-> TRUE, insert |-> {}]

\* health_check: HttpResponse::Ok().finish(), no argument
health_check ==
    [status |-> 200, length |-> 0, handler |-> TRUE, insert |-> {}]

Rejected(code) ==
    [status |-> code, length |-> 0, handler |-> FALSE, insert |-> {}]

\* the routes run() registers, with the Form extractor in front of subscribe
Respond(method, path, body) ==
    IF method = "GET" /\ path = "/health_check" THEN health_check
    ELSE IF method = "POST" /\ path = "/subscriptions"
         THEN IF FormData(body).ok THEN subscribe(FormData(body)) ELSE Rejected(400)
         ELSE Rejected(404)

ValidBody ==
    <<Pair("name", <<"le", "%20", "guin">>),
      Pair("email", <<"ursula_le_guin", "%40", "gmail.com">>)>>

\* test_cases of subscribe_return_400_with_missing_data
test_cases ==
    << <<Pair("name", <<"le", "%20", "guin">>)>>,
       <<Pair("email", <<"ursula_le_guin", "%40", "gmail.com">>)>>,
       <<>> >>


(***************************************************************************)
(* State                                                                   *)
(***************************************************************************)
VARIABLES
    tracing,    \* the Once behind lazy_static TRACING: "uninit", "running", "done"
    tracingBy,  \* the tests that ran the TRACING initializer
    pc,         \* where each test is
    panicAt,    \* the step at which a test panicked, "none" otherwise
    cfg,        \* each test's configuration.database
    issued,     \* the values Uuid::new_v4 has returned
    dbs,        \* the Postgres server: the state of every database name
    pool,       \* each test's PgPool (the server holds a clone of the same pool)
    adminConn,  \* the connection string of each test's PgConnection, <<>> if none
    server,     \* each test's spawned server
    app,        \* each test's TestApp
    hist,       \* the provisioning steps each test has completed, in order
    response,   \* the last response each test received
    caseIx,     \* position in test_cases
    saved,      \* the rows the SELECT of the 200 test returned
    handled,    \* how often a handler body ran in each test's server
    http,       \* one request against a running server, any body
    log,        \* what each test asked of Postgres, and over which connection string
    prod        \* the production process started by main

vars == <<tracing, tracingBy, pc, panicAt, cfg, issued, dbs, pool, adminConn,
          server, app, hist, response, caseIx, saved, handled, http, log,
          prod>>

NoDb == [exists |-> FALSE, migrated |-> FALSE, rows |-> {}]
NoPool == [state |-> "none", db |-> NoName]
NoServer == [running |-> FALSE, pool |-> "none"]
NoApp == [address |-> "none", db_config |-> NoSettings, db_pool |-> "none"]
NoResponse == [status |-> 0, length |-> 0, handler |-> FALSE, insert |-> {}]
\* pool: the state of the pool the server was given; earlier: whether the
\* server has answered a request before
HttpIdle == [phase |-> "idle", method |-> "", path |-> "", body |-> <<>>,
             reply |-> NoResponse, pool |-> "open", earlier |-> FALSE]

\* what main finds when it starts: the configuration file, the port it
\* names, whether Postgres answers and has the configured database, and the
\* ports other processes hold
Ports == 1..NumPorts
Environments ==
    [config : {"ok", "missing"}, port : Ports, dbUp : BOOLEAN,
     dbExists : BOOLEAN, busy : SUBSET Ports, listenOk : BOOLEAN]

MainStart(env) ==
    [pc |-> "tracing", env |-> env, configured |-> FALSE, pool |-> "none",
     listener |-> 0, serving |-> FALSE, exit |-> 0, done |-> <<>>]

\* the production process before main runs
NotStarted ==
    [pc |-> "not_started",
     env |-> [config |-> "ok", port |-> 1, dbUp |-> TRUE, dbExists |-> TRUE,
              busy |-> {}, listenOk |-> TRUE],
     configured |-> FALSE, pool |-> "none", listener |-> 0, serving |-> FALSE,
     exit |-> 0, done |-> <<>>]

TestsNotStarted ==
    /\ tracing = "uninit"
    /\ tracingBy = {}
    /\ pc = [t \in Tests |-> "initialize_tracing"]
    /\ panicAt = [t \in Tests |-> "none"]
    /\ cfg = [t \in Tests |-> NoSettings]
    /\ issued = {}
    /\ dbs = [n \in DbNames |->
                IF n = BaseDb
                THEN [exists |-> TRUE, migrated |-> TRUE, rows |-> {}]
                ELSE NoDb]
    /\ pool = [t \in Tests |-> NoPool]
    /\ adminConn = [t \in Tests |-> <<>>]
    /\ server = [t \in Tests |-> NoServer]
    /\ app = [t \in Tests |-> NoApp]
    /\ hist = [t \in Tests |-> <<>>]
    /\ response = [t \in Tests |-> NoResponse]
    /\ caseIx = [t \in Tests |-> 1]
    /\ saved = [t \in Tests |-> {}]
    /\ handled = [t \in Tests |-> 0]
    /\ http = HttpIdle
    /\ log = [t \in Tests |-> <<>>]

Init == TestsNotStarted /\ prod = NotStarted

Goto(t, l) == pc' = [pc EXCEPT ![t] = l] /\ UNCHANGED panicAt

\* the mutant: a panic that aborts the process, every test with it
PanicAborts(t) ==
    /\ pc' = [u \in Tests |-> "panicked"]
    /\ panicAt' = [u \in Tests |->
                     IF pc[u] = "panicked" THEN panicAt[u] ELSE pc[u]]

\* an .expect() on an Err, or a failed assert!: the test function unwinds
\* and the harness records the failure of this test
Panic(t) ==
    /\ pc' = [pc EXCEPT ![t] = "panicked"]
    /\ panicAt' = [panicAt EXCEPT ![t] = pc[t]]

(***************************************************************************)
(* lazy_static TRACING                                                     *)
(***************************************************************************)
\* the mutant: a check of the flag with no lock around the initializer
OnceRunsBodyUnlocked(state) == state # "done"

\* Once::call_once: the caller that finds the cell untouched runs the body
OnceRunsBody(state) == state = "uninit"

TracingInitialize(t) ==
    /\ pc[t] = "initialize_tracing"
    /\ IF OnceRunsBody(tracing)
       THEN tracing' = "running" /\ Goto(t, "tracing_body")
       ELSE \* a caller that finds the body running waits for it
            /\ tracing = "done"
            /\ Goto(t, "get_configuration")
            /\ UNCHANGED tracing
    /\ UNCHANGED <<tracingBy, cfg, issued, dbs, pool, adminConn, server, app,
                   hist, response, caseIx, saved, handled, http, log,
                   prod>>

TracingBody(t) ==
    /\ pc[t] = "tracing_body"
    /\ tracing' = "done"
    /\ tracingBy' = tracingBy \cup {t}
    /\ Goto(t, "get_configuration")
    /\ UNCHANGED <<cfg, issued, dbs, pool, adminConn, server, app, hist,
                   response, caseIx, saved, handled, http, log,
                   prod>>

(***************************************************************************)
(* spawn_app and configure_database                                        *)
(***************************************************************************)
GetConfiguration(t) ==
    /\ pc[t] = "get_configuration"
    /\ \E ok \in BOOLEAN :
         IF ok
         THEN cfg' = [cfg EXCEPT ![t] = BaseSettings] /\ Goto(t, "assign_name")
         ELSE Panic(t) /\ UNCHANGED cfg
    /\ UNCHANGED <<tracing, tracingBy, issued, dbs, pool, adminConn, server,
                   app, hist, response, caseIx, saved, handled, http, log,
                   prod>>

\* the mutant: a generator that can return a value it returned before
NewV4Repeating(given) == Uuids

\* Uuid::new_v4(): a value no earlier call returned
NewV4(given) == Uuids \ given

\* the mutant: the loaded database_name is left in place
AssignedNameKept(loaded, uuid) == loaded

\* configuration.database.database_name = Uuid::new_v4().to_string()
AssignedName(loaded, uuid) == uuid

AssignName(t) ==
    /\ pc[t] = "assign_name"
    /\ \E u \in NewV4(issued) :
         /\ issued' = issued \cup {u}
         /\ cfg' = [cfg EXCEPT ![t].database_name =
                                   AssignedName(cfg[t].database_name, u)]
    /\ hist' = [hist EXCEPT ![t] = Append(@, "NameAssigned")]
    /\ Goto(t, "connect_admin")
    /\ UNCHANGED <<tracing, tracingBy, dbs, pool, adminConn, server, app,
                   response, caseIx, saved, handled, http, log,
                   prod>>

\* the mutant: the migrations are never run
ConfigureDatabaseUnmigrated(step) ==
    CASE step = "connect_admin" -> "create_database"
      [] step = "create_database" -> "connect_pool"
      [] step = "connect_pool" -> "spawn_server"
      [] OTHER -> "spawn_server"

\* the statements of configure_database, in program order
ConfigureDatabaseNext(step) ==
    CASE step = "connect_admin" -> "create_database"
      [] step = "create_database" -> "connect_pool"
      [] step = "connect_pool" -> "migrate"
      [] OTHER -> "spawn_server"

ConnectAdmin(t) ==
    /\ pc[t] = "connect_admin"
    /\ \E ok \in BOOLEAN :
         IF ok
         THEN /\ adminConn' = [adminConn EXCEPT
                                 ![t] = get_connection_string_default_db(cfg[t])]
              /\ Goto(t, ConfigureDatabaseNext(pc[t]))
         ELSE Panic(t) /\ UNCHANGED adminConn
    /\ UNCHANGED <<tracing, tracingBy, cfg, issued, dbs, pool, server, app,
                   hist, response, caseIx, saved, handled, http, log,
                   prod>>

\* one request to Postgres: the statement (or the pool connection), the
\* connection string it went over, the database it names, and how it ended
Asked(t, what, conn, name, done) ==
    log' = [log EXCEPT ![t] = Append(@,
              [op |-> what, via |-> conn, name |-> name, ok |-> done])]

\* the mutant: the error of CREATE DATABASE is dropped and setup goes on
CreateFailedIgnored(t) == Goto(t, "connect_pool")

\* .expect("Failed to create the test database") on the CREATE DATABASE result
CreateFailed(t) == Panic(t)

\* CREATE DATABASE "<database_name>": an error when the name is taken
CreateDatabase(t) ==
    /\ pc[t] = "create_database"
    /\ LET name == cfg[t].database_name IN
       \E ok \in BOOLEAN :
         IF ok /\ ~dbs[name].exists
         THEN /\ dbs' = [dbs EXCEPT ![name] =
                           [exists |-> TRUE, migrated |-> FALSE, rows |-> {}]]
              /\ hist' = [hist EXCEPT ![t] = Append(@, "Created")]
              /\ Asked(t, "CREATE DATABASE", adminConn[t], name, TRUE)
              /\ Goto(t, ConfigureDatabaseNext(pc[t]))
         ELSE /\ Asked(t, "CREATE DATABASE", adminConn[t], name, FALSE)
              /\ CreateFailed(t) /\ UNCHANGED <<dbs, hist>>
    /\ UNCHANGED <<tracing, tracingBy, cfg, issued, pool, adminConn, server,
                   app, response, caseIx, saved, handled, http, prod>>

\* PgPool::connect(get_connection_string()): an error when the database
\* does not exist
ConnectPool(t) ==
    /\ pc[t] = "connect_pool"
    /\ LET target == SelectedDb(get_connection_string(cfg[t])) IN
       \E ok \in BOOLEAN :
         IF ok /\ target \in DbNames /\ dbs[target].exists
         THEN /\ pool' = [pool EXCEPT ![t] = [state |-> "open", db |-> target]]
              /\ Asked(t, "PgPool::connect", get_connection_string(cfg[t]),
                       target, TRUE)
              /\ Goto(t, ConfigureDatabaseNext(pc[t]))
         ELSE /\ Asked(t, "PgPool::connect", get_connection_string(cfg[t]),
                       target, FALSE)
              /\ Panic(t) /\ UNCHANGED pool
    /\ UNCHANGED <<tracing, tracingBy, cfg, issued, dbs, adminConn, server,
                   app, hist, response, caseIx, saved, handled, http, prod>>

\* sqlx::migrate!("./migrations").run(&connection_pool)
Migrate(t) ==
    /\ pc[t] = "migrate"
    /\ \E ok \in BOOLEAN :
         IF ok
         THEN /\ dbs' = [dbs EXCEPT ![pool[t].db].migrated = TRUE]
              /\ hist' = [hist EXCEPT ![t] = Append(@, "Migrated")]
              /\ Goto(t, ConfigureDatabaseNext(pc[t]))
         ELSE Panic(t) /\ UNCHANGED <<dbs, hist>>
    /\ UNCHANGED <<tracing, tracingBy, cfg, issued, pool, adminConn, server,
                   app, response, caseIx, saved, handled, http, log,
                   prod>>

\* bind a random port, run(listener, connection_pool.clone()), tokio::spawn,
\* build the TestApp; the admin connection of configure_database is gone
SpawnServer(t) ==
    /\ pc[t] = "spawn_server"
    /\ adminConn' = [adminConn EXCEPT ![t] = <<>>]
    /\ \E ok \in BOOLEAN :
         IF ok
         THEN /\ server' = [server EXCEPT ![t] = [running |-> TRUE, pool |-> t]]
              /\ app' = [app EXCEPT ![t] =
                           [address |-> t, db_config |-> cfg[t], db_pool |-> t]]
              /\ hist' = [hist EXCEPT ![t] = Append(@, "PoolReady")]
              /\ Goto(t, "request")
         ELSE Panic(t) /\ UNCHANGED <<server, app, hist>>
    /\ UNCHANGED <<tracing, tracingBy, cfg, issued, dbs, pool, response,
                   caseIx, saved, handled, http, log,
                   prod>>

(***************************************************************************)
(* The test bodies                                                         *)
(***************************************************************************)
\* a request to the server of test t and what it leaves behind: the handler
\* count and the rows the handler wrote through the server's clone of the pool
Served(t, reply) ==
    /\ server[t].running
    /\ response' = [response EXCEPT ![t] = reply]
    /\ handled' = [handled EXCEPT ![t] = @ + (IF reply.handler THEN 1 ELSE 0)]
    /\ dbs' = [dbs EXCEPT ![pool[server[t].pool].db].rows = @ \cup reply.insert]

NotSent == UNCHANGED <<response, handled, dbs>>

\* health_check_works: is_success() and content_length() == Some(0)
HealthCheckRequest(t) ==
    /\ pc[t] = "request"
    /\ t = "health_check_works"
    /\ \E ok \in BOOLEAN :
         LET reply == Respond("GET", "/health_check", <<>>) IN
         IF ok
         THEN /\ Served(t, reply)
              /\ IF reply.status \in 200..299 /\ reply.length = 0
                 THEN Goto(t, "close_pool")
                 ELSE Panic(t)
         ELSE NotSent /\ Panic(t)
    /\ UNCHANGED <<tracing, tracingBy, cfg, issued, pool, adminConn, server,
                   app, hist, caseIx, saved, http, log,
                   prod>>

\* subscribe_return_200_with_valid_data: assert_eq!(200, status)
SubscribeValidRequest(t) ==
    /\ pc[t] = "request"
    /\ t = "subscribe_return_200_with_valid_data"
    /\ \E ok \in BOOLEAN :
         LET reply == Respond("POST", "/subscriptions", ValidBody) IN
         IF ok
         THEN /\ Served(t, reply)
              /\ IF reply.status = 200 THEN Goto(t, "fetch_saved") ELSE Panic(t)
         ELSE NotSent /\ Panic(t)
    /\ UNCHANGED <<tracing, tracingBy, cfg, issued, pool, adminConn, server,
                   app, hist, caseIx, saved, http, log,
                   prod>>

SavedRow == [name |-> <<"le", " ", "guin">>,
             email |-> <<"ursula_le_guin", "@", "gmail.com">>]

\* SELECT email, name FROM subscriptions; fetch_one: RowNotFound on no row,
\* then the two assert_eq! on the row
FetchSaved(t) ==
    /\ pc[t] = "fetch_saved"
    /\ LET rows == dbs[pool[app[t].db_pool].db].rows IN
       \E ok \in BOOLEAN :
         IF ok /\ rows # {}
         THEN \E row \in rows :
                /\ saved' = [saved EXCEPT ![t] = {row}]
                /\ IF row = SavedRow THEN Goto(t, "close_pool") ELSE Panic(t)
         ELSE Panic(t) /\ UNCHANGED saved
    /\ UNCHANGED <<tracing, tracingBy, cfg, issued, dbs, pool, adminConn,
                   server, app, hist, response, caseIx, handled, http, log,
                   prod>>

\* subscribe_return_400_with_missing_data: one pass of the for loop
SubscribeMissingRequest(t) ==
    /\ pc[t] = "request"
    /\ t = "subscribe_return_400_with_missing_data"
    /\ \E ok \in BOOLEAN :
         LET reply == Respond("POST", "/subscriptions", test_cases[caseIx[t]]) IN
         IF ok
         THEN /\ Served(t, reply)
              /\ IF reply.status = 400
                 THEN IF caseIx[t] < Len(test_cases)
                      THEN caseIx' = [caseIx EXCEPT ![t] = @ + 1] /\ Goto(t, "request")
                      ELSE UNCHANGED caseIx /\ Goto(t, "close_pool")
                 ELSE UNCHANGED caseIx /\ Panic(t)
         ELSE NotSent /\ UNCHANGED caseIx /\ Panic(t)
    /\ UNCHANGED <<tracing, tracingBy, cfg, issued, pool, adminConn, server,
                   app, hist, saved, http, log,
                   prod>>

(***************************************************************************)
(* clean_up                                                                *)
(***************************************************************************)
\* the mutant: clean_up without the close
CloseForgotten(p) == p

\* PgPool::close
Close(p) == [p EXCEPT !.state = "closed"]

\* app.db_pool.close(): closes the pool for every clone of it
ClosePool(t) ==
    /\ pc[t] = "close_pool"
    /\ pool' = [pool EXCEPT ![app[t].db_pool] = Close(@)]
    /\ Goto(t, "connect_drop")
    /\ UNCHANGED <<tracing, tracingBy, cfg, issued, dbs, adminConn, server,
                   app, hist, response, caseIx, saved, handled, http, log,
                   prod>>

ConnectDrop(t) ==
    /\ pc[t] = "connect_drop"
    /\ \E ok \in BOOLEAN :
         IF ok
         THEN /\ adminConn' = [adminConn EXCEPT
                  ![t] = get_connection_string_default_db(app[t].db_config)]
              /\ Goto(t, "drop_database")
         ELSE Panic(t) /\ UNCHANGED adminConn
    /\ UNCHANGED <<tracing, tracingBy, cfg, issued, dbs, pool, server, app,
                   hist, response, caseIx, saved, handled, http, log,
                   prod>>

\* the mutant: the statement names the configured database
DropTargetConfigured(a) == BaseDb

\* format!(r#"DROP DATABASE "{}";"#, &app.db_config.database_name)
DropTarget(a) == a.db_config.database_name

\* sessions on a database: the open pools that address it
InUse(name) == \E u \in Tests : pool[u].state = "open" /\ pool[u].db = name

\* DROP DATABASE: an error when the database is missing or has sessions
DropDatabase(t) ==
    /\ pc[t] = "drop_database"
    /\ adminConn' = [adminConn EXCEPT ![t] = <<>>]
    /\ LET name == DropTarget(app[t]) IN
       \E ok \in BOOLEAN :
         IF ok /\ dbs[name].exists /\ ~InUse(name)
         THEN /\ dbs' = [dbs EXCEPT ![name] = NoDb]
              /\ Asked(t, "DROP DATABASE", adminConn[t], name, TRUE)
              /\ Goto(t, "done")
         ELSE /\ Asked(t, "DROP DATABASE", adminConn[t], name, FALSE)
              /\ Panic(t) /\ UNCHANGED dbs
    /\ UNCHANGED <<tracing, tracingBy, cfg, issued, pool, server, app, hist,
                   response, caseIx, saved, handled, http, prod>>

(***************************************************************************)
(* The test binary: the three tests, interleaved at their awaits           *)
(***************************************************************************)
\* one step of one test function
TestStep(t) ==
    \/ TracingInitialize(t)
    \/ TracingBody(t)
    \/ GetConfiguration(t)
    \/ AssignName(t)
    \/ ConnectAdmin(t)
    \/ CreateDatabase(t)
    \/ ConnectPool(t)
    \/ Migrate(t)
    \/ SpawnServer(t)
    \/ HealthCheckRequest(t)
    \/ SubscribeValidRequest(t)
    \/ FetchSaved(t)
    \/ SubscribeMissingRequest(t)
    \/ ClosePool(t)
    \/ ConnectDrop(t)
    \/ DropDatabase(t)

Next == \E t \in Tests : TestStep(t)

Spec == Init /\ [][Next]_vars

(***************************************************************************)
(* One server, any request: the routes on every body of the bounded set    *)
(***************************************************************************)
Tokens == {"a", "%20", "%40"}
EncodedValues == UNION {[1..n -> Tokens] : n \in 0..MaxValLen}
FormKeys == {"name", "email", "comment"}

\* the encodings of a form: each key at most once, in any order
KeyOrders ==
    {ks \in UNION {[1..n -> FormKeys] : n \in 0..Cardinality(FormKeys)} :
        \A i, j \in DOMAIN ks : i # j => ks[i] # ks[j]}

Bodies ==
    UNION {{[i \in DOMAIN ks |-> Pair(ks[i], vs[i])] :
               vs \in [DOMAIN ks -> EncodedValues]} : ks \in KeyOrders}
    \cup {ValidBody} \cup {test_cases[i] : i \in DOMAIN test_cases}

Methods == {"GET", "POST"}
Paths == {"/health_check", "/subscriptions"}

HttpSend ==
    /\ http.phase = "idle"
    /\ \E m \in Methods, p \in Paths, b \in Bodies :
         http' = [http EXCEPT !.phase = "sent", !.method = m, !.path = p,
                              !.body = b, !.reply = NoResponse]
    /\ UNCHANGED <<tracing, tracingBy, pc, panicAt, cfg, issued, dbs, pool,
                   adminConn, server, app, hist, response, caseIx, saved, handled,
                   log, prod>>

HttpServe ==
    /\ http.phase = "sent"
    /\ http' = [http EXCEPT !.phase = "replied",
                            !.reply = Respond(http.method, http.path, http.body)]
    /\ UNCHANGED <<tracing, tracingBy, pc, panicAt, cfg, issued, dbs, pool,
                   adminConn, server, app, hist, response, caseIx, saved, handled,
                   log, prod>>

HttpReceive ==
    /\ http.phase = "replied"
    /\ http' = [HttpIdle EXCEPT !.pool = http.pool, !.earlier = TRUE]
    /\ UNCHANGED <<tracing, tracingBy, pc, panicAt, cfg, issued, dbs, pool,
                   adminConn, server, app, hist, response, caseIx, saved, handled,
                   log, prod>>

\* app.db_pool.close() of clean_up: the spawned server is never stopped and
\* goes on answering with its clone of the closed pool
HttpClosePool ==
    /\ http.pool = "open"
    /\ http' = [http EXCEPT !.pool = "closed"]
    /\ UNCHANGED <<tracing, tracingBy, pc, panicAt, cfg, issued, dbs, pool,
                   adminConn, server, app, hist, response, caseIx, saved, handled,
                   log, prod>>

NextHttp == HttpSend \/ HttpServe \/ HttpReceive \/ HttpClosePool

SpecHttp == Init /\ [][NextHttp]_vars

(***************************************************************************)
(* main.rs: the production entry point                                     *)
(***************************************************************************)
\* the mutant: the listener is bound before the pool is connected
MainNextBindFirst(step) ==
    CASE step = "tracing" -> "get_configuration"
      [] step = "get_configuration" -> "bind"
      [] step = "bind" -> "connect"
      [] step = "connect" -> "run"
      [] OTHER -> "serving"

\* the statements of main, in program order
MainNext(step) ==
    CASE step = "tracing" -> "get_configuration"
      [] step = "get_configuration" -> "connect"
      [] step = "connect" -> "bind"
      [] step = "bind" -> "run"
      [] OTHER -> "serving"

\* a panic of .expect (exit status 101) or main returning Err (exit status 1)
MainExit(code) == [prod EXCEPT !.pc = "exited", !.exit = code]

TestsIdle ==
    UNCHANGED <<tracing, tracingBy, pc, panicAt, cfg, issued, dbs, pool,
                adminConn, server, app, hist, response, caseIx, saved, handled,
                http, log>>

\* get_subscriber, LogTracer::init, set_global_default: the first and only
\* logger of the process
MainTracing ==
    /\ prod.pc = "tracing"
    /\ prod' = [prod EXCEPT !.pc = MainNext(prod.pc)]
    /\ TestsIdle

\* get_configuration().expect("Failed to read configuration")
MainGetConfiguration ==
    /\ prod.pc = "get_configuration"
    /\ prod' = IF prod.env.config = "ok"
               THEN [prod EXCEPT !.pc = MainNext(prod.pc), !.configured = TRUE,
                                 !.done = Append(@, "configured")]
               ELSE MainExit(101)
    /\ TestsIdle

\* PgPool::connect(get_connection_string()).await.expect(...)
MainConnect ==
    /\ prod.pc = "connect"
    /\ prod' = IF prod.env.dbUp /\ prod.env.dbExists
               THEN [prod EXCEPT !.pc = MainNext(prod.pc), !.pool = "open",
                                 !.done = Append(@, "connected")]
               ELSE MainExit(101)
    /\ TestsIdle

\* TcpListener::bind(address)?
MainBind ==
    /\ prod.pc = "bind"
    /\ prod' = IF prod.env.port \notin prod.env.busy
               THEN [prod EXCEPT !.pc = MainNext(prod.pc),
                                 !.listener = prod.env.port,
                                 !.done = Append(@, "bound")]
               ELSE MainExit(1)
    /\ TestsIdle

\* run(listener, connection_pool)?.await
MainRun ==
    /\ prod.pc = "run"
    /\ prod' = IF prod.env.listenOk
               THEN [prod EXCEPT !.pc = MainNext(prod.pc), !.serving = TRUE,
                                 !.done = Append(@, "serving")]
               ELSE MainExit(1)
    /\ TestsIdle

NextMain ==
    MainTracing \/ MainGetConfiguration \/ MainConnect \/ MainBind \/ MainRun

InitMain == TestsNotStarted /\ prod \in {MainStart(env) : env \in Environments}

SpecMain == InitMain /\ [][NextMain]_vars

(***************************************************************************)
(* Properties                                                              *)
(***************************************************************************)
Range(f) == {f[i] : i \in DOMAIN f}
IsPrefix(a, b) == Len(a) <= Len(b) /\ \A i \in 1..Len(a) : a[i] = b[i]

TeardownSteps == {"close_pool", "connect_drop", "drop_database"}
Finished(t) == pc[t] \in {"done", "panicked"}
\* clean_up was called: the test is in it, left it, or panicked inside it
CleanUpAttempted(t) ==
    \/ pc[t] \in TeardownSteps \cup {"done"}
    \/ panicAt[t] \in TeardownSteps
\* a test holds its database name from NameAssigned until its DROP succeeded
Live(t) == "NameAssigned" \in Range(hist[t]) /\ pc[t] # "done"

\* C1: every test whose spawn_app created the database and returned, and
\* that has ended, has attempted clean_up, whether its body passed or failed.
C1_CleanUpAlwaysAttempted ==
    \A t \in Tests :
        (Finished(t) /\ "PoolReady" \in Range(hist[t])) => CleanUpAttempted(t)

\* C2: no two live tests hold the same database_name, and the name a live
\* test holds is one Uuid::new_v4 generated.
C2_DistinctNames ==
    \A t \in Tests :
        Live(t) =>
            /\ cfg[t].database_name \in issued
            /\ \A u \in Tests \ {t} :
                 Live(u) => cfg[u].database_name # cfg[t].database_name

C2_Witness ==
    \E t, u \in Tests :
        /\ t # u
        /\ pc[t] = "request" /\ pc[u] = "request"
        /\ dbs[cfg[t].database_name].exists /\ dbs[cfg[u].database_name].exists

\* the step just taken is a step of test t
StepOf(t) == pc'[t] # pc[t]

\* C3: no step of one test changes the existence, schema or rows of the
\* database of another live test, and the pools of two tests never address
\* the same database, so a query through one pool reads only rows of the
\* test's own database.
C3_Isolation ==
    /\ [][\A t \in Tests : \A u \in Tests \ {t} :
            (StepOf(t) /\ Live(u)) =>
                dbs'[cfg[u].database_name] = dbs[cfg[u].database_name]]_vars
    /\ [](\A t \in Tests :
            pool[t].state # "none" =>
                /\ pool[t].db = cfg[t].database_name
                /\ \A u \in Tests \ {t} :
                     pool[u].state # "none" => pool[u].db # pool[t].db)

C3_Witness ==
    \E t, u \in Tests :
        /\ t # u
        /\ pc[t] = "done"
        /\ pc[u] = "request" /\ pool[u].state = "open"
        /\ dbs[cfg[u].database_name].migrated

ProvisionOrder == <<"NameAssigned", "Created", "Migrated", "PoolReady">>

\* C4: a test's provisioning steps complete in the order NameAssigned,
\* Created, Migrated, PoolReady with none skipped: the pool is opened only
\* after CREATE DATABASE completed, migrations run on an opened pool, and the
\* TestApp gets the pool only after the migrations completed.
C4_ProvisionOrder ==
    \A t \in Tests :
        /\ IsPrefix(hist[t], ProvisionOrder)
        /\ pool[t].state # "none" => "Created" \in Range(hist[t])
        /\ "Migrated" \in Range(hist[t]) => pool[t].state # "none"
        /\ app[t] # NoApp =>
             /\ hist[t] = ProvisionOrder
             /\ app[t].db_pool = t

C4_Witness ==
    \E t \in Tests : app[t] # NoApp /\ pool[app[t].db_pool].state = "open"

\* C5: once clean_up has returned, the database named in the TestApp's
\* db_config does not exist, so a connection to that name fails.
C5_DroppedAfterCleanUp ==
    \A t \in Tests :
        pc[t] = "done" => ~dbs[app[t].db_config.database_name].exists

C5_Witness ==
    \E t \in Tests : pc[t] = "done" /\ "Created" \in Range(hist[t])

\* C6: after the POST of the valid body returned 200, the subscriptions table
\* of the test's database holds the row with the decoded name and email.
C6_RowSavedAfter200 ==
    \A t \in Tests :
        (t = "subscribe_return_200_with_valid_data"
            /\ pc[t] = "fetch_saved" /\ response[t].status = 200) =>
        [name |-> FormData(ValidBody).name, email |-> FormData(ValidBody).email]
            \in dbs[pool[app[t].db_pool].db].rows

PastTracing(t) == pc[t] \notin {"initialize_tracing", "tracing_body"}

\* C7: the TRACING initializer runs at most once, by one caller, never two at
\* a time, and no caller is past lazy_static::initialize before it completed.
C7_TracingOnce ==
    /\ Cardinality(tracingBy) <= 1
    /\ Cardinality({t \in Tests : pc[t] = "tracing_body"}) <= 1
    /\ \A t \in Tests :
         PastTracing(t) => tracing = "done" /\ Cardinality(tracingBy) = 1

C7_Witness ==
    /\ \A t \in Tests : PastTracing(t)
    /\ \E t \in Tests : t \notin tracingBy

\* the outcome the body had: every assertion passed and clean_up was called
BodyPassed(t) == CleanUpAttempted(t)

\* C8: a test whose assertions all passed is recorded as passed, whatever
\* happens in clean_up.
C8_TeardownKeepsOutcome ==
    \A t \in Tests : (Finished(t) /\ BodyPassed(t)) => pc[t] = "done"

SubscriptionPost ==
    http.phase = "replied" /\ http.method = "POST" /\ http.path = "/subscriptions"

NonEmptyField(body, k) ==
    \E i \in DOMAIN body : body[i].key = k /\ body[i].val # <<>>

\* C9: a POST /subscriptions whose body carries a non-empty name and a
\* non-empty email is answered 200.
C9_ValidFormIs200 ==
    (SubscriptionPost /\ NonEmptyField(http.body, "name")
                      /\ NonEmptyField(http.body, "email"))
        => http.reply.status = 200

C9_Witness ==
    /\ SubscriptionPost
    /\ Len(http.body) = 3
    /\ http.body[1].key = "email" /\ http.body[1].val = <<"%40">>
    /\ NonEmptyField(http.body, "name")
    /\ http.reply.status = 200

LacksField(body, k) == \A i \in DOMAIN body : body[i].key # k

\* C10: a POST /subscriptions whose body lacks name, email or both is answered
\* 400 by the extractor and the body of subscribe does not run.
C10_MissingFieldIs400 ==
    (SubscriptionPost /\ (LacksField(http.body, "name")
                            \/ LacksField(http.body, "email")))
        => http.reply.status = 400 /\ ~http.reply.handler

C10_Witness ==
    /\ SubscriptionPost
    /\ http.body = test_cases[1]
    /\ http.reply.status = 400

\* C11: GET /health_check is answered 200 with a zero-length body, whether
\* the server's pool is open or closed and whatever was requested before.
C11_HealthCheckAlways200 ==
    (http.phase = "replied" /\ http.method = "GET" /\ http.path = "/health_check")
        => http.reply.status = 200 /\ http.reply.length = 0

C11_Witness ==
    /\ http.phase = "replied" /\ http.method = "GET" /\ http.path = "/health_check"
    /\ http.pool = "closed" /\ http.earlier
    /\ http.reply.status = 200

MainOrder == <<"configured", "connected", "bound", "serving">>

\* C12: main serves only after configuration load, pool connection and
\* listener bind succeeded, in that order; a failure of any of them ends the
\* process with a failure status and without serving, and no listener is
\* bound unless the configuration was loaded and the pool connected.
C12_MainStartsInOrder ==
    /\ IsPrefix(prod.done, MainOrder)
    /\ prod.serving =>
         /\ prod.done = MainOrder
         /\ prod.configured /\ prod.pool = "open" /\ prod.listener = prod.env.port
    /\ prod.listener # 0 => prod.configured /\ prod.pool = "open"
    /\ (prod.env.config # "ok" \/ ~prod.env.dbUp \/ ~prod.env.dbExists
          \/ prod.env.port \in prod.env.busy) =>
         /\ ~prod.serving
         /\ prod.pc \in {"tracing", "get_configuration", "connect", "bind", "exited"}
    /\ prod.pc = "exited" => prod.exit # 0 /\ ~prod.serving

C12_Witness ==
    /\ prod.pc = "exited" /\ prod.exit = 101
    /\ prod.env.config = "ok" /\ ~prod.env.dbUp
    /\ prod.listener = 0

Entries(t, what) == {i \in DOMAIN log[t] : log[t][i].op = what}

\* C13: clean_up issues DROP DATABASE only with the test's pool closed: the
\* pool is closed from the connection for the drop on, and stays closed.
C13_ClosedBeforeDrop ==
    \A t \in Tests :
        (pc[t] \in {"connect_drop", "drop_database", "done"}
            \/ Entries(t, "DROP DATABASE") # {}) =>
        pool[app[t].db_pool].state = "closed"

C13_Witness ==
    \E t \in Tests :
        /\ Entries(t, "DROP DATABASE") # {}
        /\ pool[app[t].db_pool].state = "closed"
        /\ \E u \in Tests \ {t} : pool[u].state = "open"

\* the steps of spawn_app that load the configuration, connect, create the
\* database and migrate it
ProvisioningSteps ==
    {"get_configuration", "connect_admin", "create_database", "connect_pool",
     "migrate"}

\* C14: a provisioning failure of one test fails that test alone: the step
\* that panics leaves every other test, its pool, server and database as they
\* were, and every other unfinished test can still take its next step.
C14_ProvisioningFailureIsLocal ==
    /\ [][\A t \in Tests :
            (pc[t] \in ProvisioningSteps /\ pc'[t] = "panicked") =>
            \A u \in Tests \ {t} :
                /\ pc'[u] = pc[u] /\ panicAt'[u] = panicAt[u]
                /\ cfg'[u] = cfg[u] /\ pool'[u] = pool[u]
                /\ server'[u] = server[u] /\ app'[u] = app[u]
                /\ Live(u) => dbs'[cfg[u].database_name] = dbs[cfg[u].database_name]]_vars
    /\ [](\A t \in Tests :
            panicAt[t] \in ProvisioningSteps =>
            \A u \in Tests \ {t} :
                Finished(u) \/ ENABLED TestStep(u))

C14_Witness ==
    \E t, u \in Tests :
        /\ panicAt[t] = "migrate"
        /\ pc[u] = "done"
        /\ \E w \in Tests \ {t, u} : pc[w] = "request"

\* C15: a failed CREATE DATABASE ends the test's setup there: the statement
\* is issued at most once per test, and after the failure the test has
\* panicked with no pool, no migration, no listener, no server and no TestApp.
C15_CreateFailureStopsSetup ==
    \A t \in Tests :
        /\ Cardinality(Entries(t, "CREATE DATABASE")) <= 1
        /\ (\E i \in Entries(t, "CREATE DATABASE") : ~log[t][i].ok) =>
             /\ pc[t] = "panicked" /\ panicAt[t] = "create_database"
             /\ pool[t] = NoPool /\ Entries(t, "PgPool::connect") = {}
             /\ "Migrated" \notin Range(hist[t])
             /\ server[t] = NoServer /\ app[t] = NoApp

C15_Witness ==
    \E t \in Tests :
        /\ \E i \in Entries(t, "CREATE DATABASE") : ~log[t][i].ok
        /\ panicAt[t] = "create_database"
        /\ \E u \in Tests \ {t} : server[u].running

\* C16: the named connection string is the default one followed by "/" and
\* database_name, the default one selects no database, CREATE DATABASE and
\* DROP DATABASE go over the default string only and the pool is opened with
\* the named string only.
C16_ConnectionStrings ==
    \A t \in Tests :
        /\ cfg[t] # NoSettings =>
             /\ get_connection_string(cfg[t]) =
                  get_connection_string_default_db(cfg[t])
                      \o <<"/", cfg[t].database_name>>
             /\ SelectedDb(get_connection_string_default_db(cfg[t])) = DefaultDb
             /\ SelectedDb(get_connection_string(cfg[t])) = cfg[t].database_name
             /\ \A f \in {"username", "password", "host", "port"} :
                  /\ cfg[t][f] \in Range(get_connection_string_default_db(cfg[t]))
                  /\ cfg[t][f] \in Range(get_connection_string(cfg[t]))
        /\ \A i \in DOMAIN log[t] :
             IF log[t][i].op = "PgPool::connect"
             THEN /\ log[t][i].via = get_connection_string(cfg[t])
                  /\ SelectedDb(log[t][i].via) = cfg[t].database_name
             ELSE /\ log[t][i].via = get_connection_string_default_db(cfg[t])
                  /\ SelectedDb(log[t][i].via) = DefaultDb

C16_Witness ==
    \E t \in Tests :
        /\ Entries(t, "CREATE DATABASE") # {}
        /\ Entries(t, "PgPool::connect") # {}
        /\ Entries(t, "DROP DATABASE") # {}

\* C17: every DROP DATABASE of a test names the database of its TestApp,
\* which the same test created before; neither a CREATE nor a DROP names the
\* configured database or the database of another live test, and the
\* configured database stays as it was.
C17_DropsOwnDatabaseOnly ==
    /\ dbs[BaseDb] = [exists |-> TRUE, migrated |-> TRUE, rows |-> {}]
    /\ \A t \in Tests : \A i \in DOMAIN log[t] :
         /\ log[t][i].name # BaseDb
         /\ \A u \in Tests \ {t} :
              Live(u) => cfg[u].database_name # log[t][i].name
         /\ log[t][i].op = "DROP DATABASE" =>
              /\ log[t][i].name = app[t].db_config.database_name
              /\ \E j \in 1..(i - 1) :
                   /\ log[t][j].op = "CREATE DATABASE" /\ log[t][j].ok
                   /\ log[t][j].name = log[t][i].name

C17_Witness ==
    \E t \in Tests :
        /\ \E i \in Entries(t, "DROP DATABASE") : log[t][i].ok
        /\ \E u \in Tests \ {t} : Live(u) /\ dbs[cfg[u].database_name].exists

\* C18: a test's server runs, and answers a request, only with the test's
\* database created and migrated; the server's pool is the pool of the
\* TestApp and addresses the database of db_config, which exists and is
\* migrated until clean_up drops it.
C18_ServerAfterMigrations ==
    \A t \in Tests :
        /\ (response[t] # NoResponse \/ handled[t] > 0) => server[t].running
        /\ server[t].running =>
             /\ "Created" \in Range(hist[t]) /\ "Migrated" \in Range(hist[t])
             /\ server[t].pool = app[t].db_pool
             /\ pool[server[t].pool].db = app[t].db_config.database_name
             /\ pc[t] # "done" =>
                  /\ dbs[pool[server[t].pool].db].exists
                  /\ dbs[pool[server[t].pool].db].migrated

C18_Witness ==
    \E t \in Tests :
        /\ server[t].running /\ handled[t] > 0
        /\ dbs[pool[server[t].pool].db].migrated

====
